---- MODULE Spec2Model ----
(***************************************************************************)
(* Model of the GPM raster extraction pipeline of                          *)
(*   src/app/services/gpm_service.py  (process_local_file,                 *)
(*     _extract_cloud_arrays, get_sparse_cloud_data)                       *)
(*   src/app/api/routers/gpm.py       (get_gpm_data)                       *)
(*                                                                         *)
(* One request (file, bounding box, threshold, format) is fixed by Init.   *)
(* The three service functions are called on it one after the other; each  *)
(* call runs stage by stage (existence check, grouped open, flat open,     *)
(* variable resolution, crop, extraction, orientation, filter, close) and  *)
(* leaves its outcome in `returned`.                                       *)
(*                                                                         *)
(* Numbers: field values, coordinates and the threshold are integers.      *)
(* Arrays are numpy-like records [shape, flat] with C (row-major) order.   *)
(***************************************************************************)
EXTENDS Integers, Sequences, FiniteSets, TLC

----------------------------------------------------------------------------
(* Bounds of the model *)

\* Latitude / longitude counts of the dataset of the crop requests.
MaxLat == 2
MaxLon == 3
\* Largest cell value (and largest threshold) of the filter requests.
MaxCell == 1

----------------------------------------------------------------------------
(* Sequences and arrays *)

Range(s) == {s[i] : i \in DOMAIN s}

RECURSIVE SeqProd(_)
SeqProd(s) == IF s = <<>> THEN 1 ELSE Head(s) * SeqProd(Tail(s))

SetMax(S) == CHOOSE m \in S : \A x \in S : x <= m
Min2(a, b) == IF a <= b THEN a ELSE b
Max2(a, b) == IF a >= b THEN a ELSE b

\* ndarray.size
Size(a) == SeqProd(a.shape)
\* ndarray.ndim
Ndim(a) == Len(a.shape)

\* Element (i, j), 1-based, of a 2-D array.
At(a, i, j) == a.flat[(i - 1) * a.shape[2] + j]

\* ndarray.squeeze(): every axis of length 1 is removed; the cells stay.
Squeeze(a) ==
  [shape |-> SelectSeq(a.shape, LAMBDA n : n # 1), flat |-> a.flat]

\* ndarray.T: reverses the axes; a no-op below two dimensions.
Transpose(a) ==
  IF Ndim(a) # 2 THEN a
  ELSE LET r == a.shape[1]
           c == a.shape[2]
       IN [shape |-> <<c, r>>,
           flat  |-> [k \in 1..(r * c) |->
                        LET i == ((k - 1) \div r) + 1
                            j == ((k - 1) % r) + 1
                        IN a.flat[(j - 1) * c + i]]]

----------------------------------------------------------------------------
(* Float32 and struct packing *)

RECURSIVE Pow2(_)
Pow2(n) == IF n = 0 THEN 1 ELSE 2 * Pow2(n - 1)

RECURSIVE Log2(_)
\* floor(log2 x) for x >= 1
Log2(x) == IF x < 2 THEN 0 ELSE 1 + Log2(x \div 2)

Abs(x) == IF x < 0 THEN -x ELSE x

\* astype(np.float32) of an integer value: the nearest value with a 24-bit
\* significand (ties to even).
Float32(x) ==
  LET m == Abs(x)
      e == Log2(IF m = 0 THEN 1 ELSE m)
  IN IF e < 24 THEN x
     ELSE LET q    == Pow2(e - 23)
              lo   == (m \div q) * q
              rem  == m - lo
              up   == (rem * 2 > q) \/ (rem * 2 = q /\ ((m \div q) % 2 = 1))
              r    == IF up THEN lo + q ELSE lo
          IN IF x < 0 THEN -r ELSE r

\* The four little-endian bytes of the IEEE-754 single of an integer value
\* that float32 represents exactly.
F32Bytes(x) ==
  LET m    == Abs(x)
      e    == Log2(IF m = 0 THEN 1 ELSE m)
      expo == IF m = 0 THEN 0 ELSE 127 + e
      mant == IF m = 0 THEN 0
              ELSE IF e <= 23 THEN (m - Pow2(e)) * Pow2(23 - e)
              ELSE (m - Pow2(e)) \div Pow2(e - 23)
      sign == IF x < 0 THEN 1 ELSE 0
  IN << mant % 256,
        (mant \div 256) % 256,
        ((mant \div 65536) % 128) + 128 * (expo % 2),
        (expo \div 2) + 128 * sign >>

\* struct.pack('<I', n)
U32Bytes(n) ==
  << n % 256, (n \div 256) % 256, (n \div 65536) % 256, (n \div 16777216) % 256 >>

RECURSIVE TobytesF32(_)
\* ndarray.tobytes() of a float32 vector
TobytesF32(v) == IF v = <<>> THEN <<>> ELSE F32Bytes(Head(v)) \o TobytesF32(Tail(v))

----------------------------------------------------------------------------
(* Files and datasets *)

\* Python's None for var_name; Option values are <<>> (nothing) or <<x>>.
None == "None"
Nothing == <<>>
Some(x) == <<x>>
Get(o) == o[1]

\* A dataset: the variables it exposes, its coordinate names in the order
\* ds.coords lists them, the coordinate values (ascending), the physical
\* field field[i][j] at (lats[i], lons[j]) and the axis order in which the
\* file stores it.
Iota(n) == [i \in 1..n |-> i]

\* ds[var_name]: the stored 2-D variable, axes in the file's order.
VarArray(d) ==
  LET nLat == Len(d.lats)
      nLon == Len(d.lons)
  IN IF d.layout = "latlon"
     THEN [shape |-> <<nLat, nLon>>,
           flat  |-> [k \in 1..(nLat * nLon) |->
                        d.field[((k - 1) \div nLon) + 1][((k - 1) % nLon) + 1]]]
     ELSE [shape |-> <<nLon, nLat>>,
           flat  |-> [k \in 1..(nLat * nLon) |->
                        d.field[((k - 1) % nLat) + 1][((k - 1) \div nLat) + 1]]]

\* Coordinate names that contain 'lat' / 'lon' once lower-cased.
LatLike == {"lat", "Latitude"}
LonLike == {"lon", "Longitude"}

----------------------------------------------------------------------------
(* Stage 1: open *)

\* Faulty variant: the existence test is skipped.
PathExistsSkipped(file) == TRUE

\* os.path.exists(file_path)
PathExists(file) == file.exists

\* xr.open_dataset(file_path, group='Grid', ...) succeeds
OpenGrouped(file) == file.groupedOk

\* xr.open_dataset(file_path, ...) succeeds
OpenFlat(file) == file.flatOk

----------------------------------------------------------------------------
(* Stage 2: identify variables *)

\* Faulty variant: the first two candidates change places.
candidatesSwapped == <<"precipitation", "precipitationCal", "precip">>

candidates == <<"precipitationCal", "precipitation", "precip">>

RECURSIVE FirstIn(_, _, _)
\* next((v for v in seq if v in S), default)
FirstIn(seq, S, default) ==
  IF seq = <<>> THEN default
  ELSE IF Head(seq) \in S THEN Head(seq)
  ELSE FirstIn(Tail(seq), S, default)

ResolveVarName(d) == FirstIn(candidates, d.vars, None)
ResolveLatName(d) == FirstIn(d.coords, LatLike, "lat")
ResolveLonName(d) == FirstIn(d.coords, LonLike, "lon")

----------------------------------------------------------------------------
(* Stage 3: crop *)

\* Faulty variant: the slice trusts the caller's order of the two edges.
LatSliceAsGiven(bounds) == [start |-> bounds.bottom, stop |-> bounds.top]

\* slice(start, stop) of labels
LatSlice(bounds) ==
  [start |-> Min2(bounds.bottom, bounds.top),
   stop  |-> Max2(bounds.bottom, bounds.top)]

LonSlice(bounds) ==
  [start |-> Min2(bounds.left, bounds.right),
   stop  |-> Max2(bounds.left, bounds.right)]

\* Label-based slice of an ascending index: both ends inclusive.
SliceIdx(coord, sl) ==
  SelectSeq(Iota(Len(coord)), LAMBDA i : sl.start <= coord[i] /\ coord[i] <= sl.stop)

\* ds.sel({lat_name: lat_slice, lon_name: lon_slice}): raises (Nothing) when
\* a name is no dimension of the dataset, else the selected sub-dataset.
Sel(d, latn, lonn, lat_slice, lon_slice) ==
  IF latn \notin Range(d.coords) \/ lonn \notin Range(d.coords) THEN Nothing
  ELSE LET I == SliceIdx(d.lats, lat_slice)
           J == SliceIdx(d.lons, lon_slice)
       IN Some([d EXCEPT
                 !.lats  = [a \in 1..Len(I) |-> d.lats[I[a]]],
                 !.lons  = [b \in 1..Len(J) |-> d.lons[J[b]]],
                 !.field = [a \in 1..Len(I) |-> [b \in 1..Len(J) |-> d.field[I[a]][J[b]]]]])

\* Faulty variant: the size test is missing.
CropExtractNoSizeTest(d, latn, lonn, bounds) ==
  LET s == Sel(d, latn, lonn, LatSlice(bounds), LonSlice(bounds))
  IN IF s = Nothing THEN d ELSE Get(s)

\* try: sel; if size == 0: ds  except: ds     (_extract_cloud_arrays)
CropExtract(d, latn, lonn, bounds) ==
  LET s == Sel(d, latn, lonn, LatSlice(bounds), LonSlice(bounds))
  IN IF s = Nothing THEN d
     ELSE IF Size(VarArray(Get(s))) = 0 THEN d
     ELSE Get(s)

\* the same in process_local_file
CropLocal(d, latn, lonn, bounds) ==
  LET s == Sel(d, latn, lonn, LatSlice(bounds), LonSlice(bounds))
  IN IF s = Nothing THEN d
     ELSE IF Size(VarArray(Get(s))) = 0 THEN d
     ELSE Get(s)

\* try: sel  except: ds     (get_sparse_cloud_data: no size test)
CropSparse(d, latn, lonn, bounds) ==
  LET s == Sel(d, latn, lonn, LatSlice(bounds), LonSlice(bounds))
  IN IF s = Nothing THEN d ELSE Get(s)

----------------------------------------------------------------------------
(* Stage 4: extract and orient *)

\* ds_cropped[lat_name] raises KeyError when the name is no coordinate.
HasCoords(d, latn, lonn) == latn \in Range(d.coords) /\ lonn \in Range(d.coords)

\* ds_cropped[var_name].squeeze().values
ExtractData(d) == Squeeze(VarArray(d))

\* if data.shape == (len(lons), len(lats)): data = data.T
Orient(a, la, lo) ==
  IF a.shape = <<Len(lo), Len(la)>> THEN Transpose(a) ELSE a

----------------------------------------------------------------------------
(* Stage 5: sparse filter *)

\* Faulty variant: cells equal to the threshold pass.
WhereGe(a, threshold) ==
  SelectSeq(Iota(Size(a)), LAMBDA k : a.flat[k] >= threshold)

\* np.where(data > threshold) of a 2-D array: the flat positions of the
\* members in row-major order (y = row, x = column of each).
Where(a, threshold) ==
  SelectSeq(Iota(Size(a)), LAMBDA k : a.flat[k] > threshold)

YIdx(a, k) == ((k - 1) \div a.shape[2]) + 1
XIdx(a, k) == ((k - 1) % a.shape[2]) + 1

\* y_idxs, x_idxs = np.where(...) unpacks only a 2-tuple, i.e. a 2-D array.
CanUnpack(a) == Ndim(a) = 2

\* np.max(data); raises on a zero-size array (tested by the caller).
NpMax(a) == SetMax(Range(a.flat))

\* float(np.max(data)) if len(valid_rain) > 0 else 0.0
MaxValOf(a, valid_rain) == IF Len(valid_rain) > 0 THEN NpMax(a) ELSE 0

\* valid_lats, valid_lons, valid_rain, max_val of _extract_cloud_arrays
SparseArrays(a, la, lo, threshold) ==
  LET w == Where(a, threshold)
      valid_rain == [n \in 1..Len(w) |-> Float32(a.flat[w[n]])]
      valid_lats == [n \in 1..Len(w) |-> Float32(la[YIdx(a, w[n])])]
      valid_lons == [n \in 1..Len(w) |-> Float32(lo[XIdx(a, w[n])])]
  IN [lats |-> valid_lats, lons |-> valid_lons, vals |-> valid_rain,
      max_val |-> MaxValOf(a, valid_rain)]

\* response_data of get_sparse_cloud_data (no float32 cast; the rounding to
\* 2 or 3 decimals leaves the model's integer values as they are).
SparseResponse(a, la, lo, threshold) ==
  LET w == Where(a, threshold)
  IN [lats |-> [n \in 1..Len(w) |-> la[YIdx(a, w[n])]],
      lons |-> [n \in 1..Len(w) |-> lo[XIdx(a, w[n])]],
      vals |-> [n \in 1..Len(w) |-> a.flat[w[n]]],
      max_val |-> NpMax(a)]

----------------------------------------------------------------------------
(* Stage 6: encode (get_gpm_data) *)

\* struct.pack('<If', count, max_val)
PackHeader(count, max_val) == U32Bytes(count) \o F32Bytes(Float32(max_val))

\* Faulty variant: the values array is left out of the body.
PackBodyNoVals(r) == TobytesF32(r.lats) \o TobytesF32(r.lons)

\* lats.tobytes() + lons.tobytes() + vals.tobytes()
PackBody(r) == TobytesF32(r.lats) \o TobytesF32(r.lons) \o TobytesF32(r.vals)

EncodeBin(r) ==
  [kind |-> "bin", status |-> 200,
   content |-> PackHeader(Len(r.vals), r.max_val) \o PackBody(r)]

EncodeJson(r, bounds) ==
  [kind |-> "json", status |-> 200,
   content |-> [meta |-> [count |-> Len(r.vals), max_val |-> r.max_val, bounds |-> bounds],
                lats |-> r.lats, lons |-> r.lons, vals |-> r.vals]]

----------------------------------------------------------------------------
(* Requests *)

VarNames == {"precipitationCal", "precipitation", "precip", "HQprecipitation"}
CoordNamings == {<<"lon", "lat">>, <<"Longitude", "Latitude">>, <<"x", "y">>}
Layouts == {"latlon", "lonlat"}
Formats == {"json", "bin"}

LatCoords(n) == [i \in 1..n |-> i]
LonCoords(n) == [j \in 1..n |-> 10 + j]

\* A field whose cells are all different.
PatternField(nLat, nLon) == [i \in 1..nLat |-> [j \in 1..nLon |-> (i - 1) * nLon + j]]

\* A bounding box that covers every coordinate of an nLat x nLon dataset.
CoverAll(nLat, nLon) == [top |-> nLat, bottom |-> 1, left |-> 11, right |-> 10 + nLon]

File(exists, groupedOk, flatOk, vs, coords, layout, field, nLat, nLon) ==
  [exists |-> exists, groupedOk |-> groupedOk, flatOk |-> flatOk,
   vars |-> vs, coords |-> coords, layout |-> layout,
   lats |-> LatCoords(nLat), lons |-> LonCoords(nLon), field |-> field]

\* Requests that vary what the file is: absent, unreadable, without a known
\* variable, with differently named coordinates.
ControlRequests ==
  { [file |-> File(e, g, f, vs, cn, "lonlat", PatternField(MaxLat, MaxLon), MaxLat, MaxLon),
     bounds |-> CoverAll(MaxLat, MaxLon), threshold |-> 0, format |-> fmt] :
      e \in BOOLEAN, g \in BOOLEAN, f \in BOOLEAN, vs \in SUBSET VarNames,
      cn \in CoordNamings, fmt \in Formats }

\* Requests that vary the bounding box: every edge from below the first
\* coordinate to above the last one, in either order.
CropRequests ==
  { [file |-> File(TRUE, TRUE, TRUE, {"precipitation"}, <<"lon", "lat">>, lay,
                   PatternField(MaxLat, MaxLon), MaxLat, MaxLon),
     bounds |-> [top |-> t, bottom |-> b, left |-> l, right |-> r],
     threshold |-> 2, format |-> "bin"] :
      lay \in Layouts, t \in 0..(MaxLat + 1), b \in 0..(MaxLat + 1),
      l \in 10..(11 + MaxLon), r \in 10..(11 + MaxLon) }

\* Requests that vary the field: every grid of these shapes over 0..MaxCell,
\* in both storage orders, with every threshold.
FilterShapes == {<<1, 1>>, <<1, 2>>, <<2, 1>>, <<2, 2>>, <<2, 3>>, <<3, 2>>}

FilterRequests ==
  UNION { { [file |-> File(TRUE, TRUE, TRUE, {"precipitationCal", "precipitation"},
                           <<"lon", "lat">>, lay, fld, sh[1], sh[2]),
             bounds |-> CoverAll(sh[1], sh[2]), threshold |-> th, format |-> fmt] :
              fld \in [1..sh[1] -> [1..sh[2] -> 0..MaxCell]],
              lay \in Layouts, th \in 0..MaxCell, fmt \in Formats } :
          sh \in FilterShapes }

Requests == ControlRequests \cup CropRequests \cup FilterRequests

----------------------------------------------------------------------------
(* State *)

VARIABLES
  request,     \* file, bounds, threshold, format of the request
  returned,    \* outcomes of the calls already made, in call order
  fn,          \* the service function being executed
  pc,          \* its position
  opens,       \* open attempts made by this call, in order
  opened,      \* handles this call has opened
  closed,      \* ds.close() calls of this call
  ds,          \* the open dataset
  var_name, lat_name, lon_name,
  ds_cropped,
  data, lats, lons,
  result,      \* the function's return value
  err,         \* the exception raised
  response     \* get_gpm_data's response

vars == <<request, returned, fn, pc, opens, opened, closed, ds, var_name,
          lat_name, lon_name, ds_cropped, data, lats, lons, result, err, response>>

\* The calls share no state; they are made in the order of the source file.
CallOrder == <<"process_local_file", "_extract_cloud_arrays", "get_sparse_cloud_data">>

Fresh ==
  /\ opens = <<>> /\ opened = 0 /\ closed = 0
  /\ ds = Nothing /\ var_name = None /\ lat_name = None /\ lon_name = None
  /\ ds_cropped = Nothing /\ data = Nothing /\ lats = <<>> /\ lons = <<>>
  /\ result = Nothing /\ err = None /\ response = Nothing

Init ==
  /\ request \in Requests
  /\ returned = <<>>
  /\ fn = None
  /\ pc = "idle"
  /\ Fresh

Contents(file) ==
  [vars |-> file.vars, coords |-> file.coords, layout |-> file.layout,
   lats |-> file.lats, lons |-> file.lons, field |-> file.field]

\* An exception leaves the function; get_gpm_data turns it into a 500.
Raise(e) ==
  /\ pc' = "failed"
  /\ err' = e
  /\ response' = IF fn = "_extract_cloud_arrays"
                 THEN Some([kind |-> "error", status |-> 500, content |-> e])
                 ELSE response

Begin ==
  /\ pc = "idle"
  /\ Len(returned) < Len(CallOrder)
  /\ fn' = CallOrder[Len(returned) + 1]
  /\ pc' = "check"
  /\ UNCHANGED <<request, returned, opens, opened, closed, ds, var_name, lat_name,
                 lon_name, ds_cropped, data, lats, lons, result, err, response>>

CheckExists ==
  /\ pc = "check"
  /\ IF PathExists(request.file)
     THEN pc' = "open_grouped" /\ UNCHANGED <<err, response>>
     ELSE Raise("FileNotFoundError")
  /\ UNCHANGED <<request, returned, fn, opens, opened, closed, ds, var_name, lat_name,
                 lon_name, ds_cropped, data, lats, lons, result>>

TryOpenGrouped ==
  /\ pc = "open_grouped"
  /\ opens' = Append(opens, "grouped")
  /\ IF OpenGrouped(request.file)
     THEN ds' = Some(Contents(request.file)) /\ opened' = opened + 1 /\ pc' = "resolve"
     ELSE pc' = "open_flat" /\ UNCHANGED <<ds, opened>>
  /\ UNCHANGED <<request, returned, fn, closed, var_name, lat_name, lon_name,
                 ds_cropped, data, lats, lons, result, err, response>>

TryOpenFlat ==
  /\ pc = "open_flat"
  /\ opens' = Append(opens, "flat")
  /\ IF OpenFlat(request.file)
     THEN /\ ds' = Some(Contents(request.file)) /\ opened' = opened + 1
          /\ pc' = "resolve" /\ UNCHANGED <<err, response>>
     ELSE Raise("OpenFailure") /\ UNCHANGED <<ds, opened>>
  /\ UNCHANGED <<request, returned, fn, closed, var_name, lat_name, lon_name,
                 ds_cropped, data, lats, lons, result>>

\* _extract_cloud_arrays resolves the coordinate names before it tests
\* var_name, the other two after.
Resolve ==
  /\ pc = "resolve"
  /\ LET v == ResolveVarName(Get(ds))
         named == v # None \/ fn = "_extract_cloud_arrays"
     IN /\ var_name' = v
        /\ lat_name' = IF named THEN ResolveLatName(Get(ds)) ELSE lat_name
        /\ lon_name' = IF named THEN ResolveLonName(Get(ds)) ELSE lon_name
        /\ IF v = None
           THEN Raise("VariableNotFound")
           ELSE pc' = "crop" /\ UNCHANGED <<err, response>>
  /\ UNCHANGED <<request, returned, fn, opens, opened, closed, ds, ds_cropped,
                 data, lats, lons, result>>

CropOf(f, d, latn, lonn, bounds) ==
  CASE f = "_extract_cloud_arrays" -> CropExtract(d, latn, lonn, bounds)
    [] f = "process_local_file"    -> CropLocal(d, latn, lonn, bounds)
    [] OTHER                       -> CropSparse(d, latn, lonn, bounds)

Crop ==
  /\ pc = "crop"
  /\ ds_cropped' = Some(CropOf(fn, Get(ds), lat_name, lon_name, request.bounds))
  /\ pc' = "extract"
  /\ UNCHANGED <<request, returned, fn, opens, opened, closed, ds, var_name, lat_name,
                 lon_name, data, lats, lons, result, err, response>>

Extract ==
  /\ pc = "extract"
  /\ data' = Some(ExtractData(Get(ds_cropped)))
  /\ IF HasCoords(Get(ds_cropped), lat_name, lon_name)
     THEN /\ lats' = Get(ds_cropped).lats
          /\ lons' = Get(ds_cropped).lons
          /\ pc' = "orient"
          /\ UNCHANGED <<err, response>>
     ELSE Raise("KeyError") /\ UNCHANGED <<lats, lons>>
  /\ UNCHANGED <<request, returned, fn, opens, opened, closed, ds, var_name, lat_name,
                 lon_name, ds_cropped, result>>

OrientData ==
  /\ pc = "orient"
  /\ data' = Some(Orient(Get(data), lats, lons))
  /\ pc' = IF fn = "process_local_file" THEN "close" ELSE "filter"
  /\ UNCHANGED <<request, returned, fn, opens, opened, closed, ds, var_name, lat_name,
                 lon_name, ds_cropped, lats, lons, result, err, response>>

Filter ==
  /\ pc = "filter"
  /\ IF ~CanUnpack(Get(data))
     THEN Raise("ValueError: unpack") /\ UNCHANGED result
     ELSE IF fn = "_extract_cloud_arrays"
     THEN /\ result' = Some(SparseArrays(Get(data), lats, lons, request.threshold))
          /\ pc' = "close"
          /\ UNCHANGED <<err, response>>
     ELSE IF Size(Get(data)) = 0
     THEN Raise("ValueError: zero-size array") /\ UNCHANGED result
     ELSE /\ result' = Some(SparseResponse(Get(data), lats, lons, request.threshold))
          /\ pc' = "close"
          /\ UNCHANGED <<err, response>>
  /\ UNCHANGED <<request, returned, fn, opens, opened, closed, ds, var_name, lat_name,
                 lon_name, ds_cropped, data, lats, lons>>

\* ds.close() and the return statement.
Close ==
  /\ pc = "close"
  /\ closed' = closed + 1
  /\ result' = IF fn = "process_local_file"
               THEN Some([lats |-> lats, lons |-> lons, data |-> Get(data)])
               ELSE result
  /\ pc' = IF fn = "_extract_cloud_arrays" THEN "encode" ELSE "done"
  /\ UNCHANGED <<request, returned, fn, opens, opened, ds, var_name, lat_name,
                 lon_name, ds_cropped, data, lats, lons, err, response>>

\* get_gpm_data after _extract_cloud_arrays has returned.
Encode ==
  /\ pc = "encode"
  /\ response' = Some(IF request.format = "bin"
                      THEN EncodeBin(Get(result))
                      ELSE EncodeJson(Get(result), request.bounds))
  /\ pc' = "done"
  /\ UNCHANGED <<request, returned, fn, opens, opened, closed, ds, var_name, lat_name,
                 lon_name, ds_cropped, data, lats, lons, result, err>>

\* The exceptions of stage 5: stages 1-4 were completed.
FilterErrors == {"ValueError: unpack", "ValueError: zero-size array"}

\* What a finished call leaves behind; grid is the output of stage 4.
Outcome ==
  [fn |-> fn, ok |-> pc = "done", err |-> err,
   grid |-> IF pc = "done" \/ err \in FilterErrors
            THEN Some([lats |-> lats, lons |-> lons, data |-> Get(data)])
            ELSE Nothing,
   result |-> result, opened |-> opened, closed |-> closed]

Finish ==
  /\ pc \in {"done", "failed"}
  /\ returned' = Append(returned, Outcome)
  /\ pc' = "idle"
  /\ fn' = None
  /\ opens' = <<>> /\ opened' = 0 /\ closed' = 0
  /\ ds' = Nothing /\ var_name' = None /\ lat_name' = None /\ lon_name' = None
  /\ ds_cropped' = Nothing /\ data' = Nothing /\ lats' = <<>> /\ lons' = <<>>
  /\ result' = Nothing /\ err' = None /\ response' = Nothing
  /\ UNCHANGED request

Next ==
  \/ Begin
  \/ CheckExists
  \/ TryOpenGrouped
  \/ TryOpenFlat
  \/ Resolve
  \/ Crop
  \/ Extract
  \/ OrientData
  \/ Filter
  \/ Close
  \/ Encode
  \/ Finish

Spec == Init /\ [][Next]_vars

----------------------------------------------------------------------------
(* Properties *)

Terminal == pc \in {"done", "failed"}
CroppingFns == {"_extract_cloud_arrays", "process_local_file"}
File_ == request.file

\* C1: in _extract_cloud_arrays and process_local_file, a dataset handle
\* that was opened is closed exactly once by the time the call returns or
\* raises, on every exit path.
C1_HandleReleased ==
  (Terminal /\ fn \in CroppingFns /\ opened = 1) => closed = 1

\* C2: for a non-empty grid the max_val returned by _extract_cloud_arrays
\* is the maximum over all cells of the grid, whatever the threshold, also
\* when no cell passes the filter.
C2_MaxValIsGridMax ==
  (fn = "_extract_cloud_arrays" /\ result # Nothing /\ Size(Get(data)) > 0)
    => /\ \A k \in 1..Size(Get(data)) : Get(data).flat[k] <= Get(result).max_val
       /\ \E k \in 1..Size(Get(data)) : Get(data).flat[k] = Get(result).max_val

\* C8: a path that does not exist fails with FileNotFoundError and no open
\* is attempted; otherwise the grouped open comes first, the flat open only
\* after the grouped open failed, the open failure only after both failed,
\* and there is never a third attempt.
C8_OpenOrder ==
  /\ opens \in {<<>>, <<"grouped">>, <<"grouped", "flat">>}
  /\ opens # <<>> => File_.exists
  /\ (~File_.exists /\ pc \notin {"idle", "check"})
       => (pc = "failed" /\ err = "FileNotFoundError" /\ opened = 0)
  /\ err = "FileNotFoundError" => ~File_.exists
  /\ "flat" \in Range(opens) => ~File_.groupedOk
  /\ err = "OpenFailure"
       => (opens = <<"grouped", "flat">> /\ ~File_.groupedOk /\ ~File_.flatOk
           /\ opened = 0 /\ pc = "failed")
  /\ (opens = <<"grouped", "flat">> /\ ~File_.flatOk) => err = "OpenFailure"
  /\ opened = (IF ds = Nothing THEN 0 ELSE 1)
  /\ ds # Nothing
       => (IF File_.groupedOk THEN opens = <<"grouped">>
           ELSE opens = <<"grouped", "flat">> /\ File_.flatOk)

C8_Witness ==
  /\ pc = "failed" /\ err = "OpenFailure"
  /\ opens = <<"grouped", "flat">>
  /\ File_.exists

\* C9: the variable is the first of precipitationCal, precipitation, precip
\* that the dataset exposes; when it exposes none the call fails with
\* VariableNotFound and no crop, extraction or filter step runs and no
\* further open is made.
C9_Expected(vs) ==
  IF "precipitationCal" \in vs THEN "precipitationCal"
  ELSE IF "precipitation" \in vs THEN "precipitation"
  ELSE IF "precip" \in vs THEN "precip"
  ELSE None

C9_Resolver ==
  /\ (ds # Nothing /\ pc # "resolve") => var_name = C9_Expected(File_.vars)
  /\ pc \in {"crop", "extract", "orient", "filter", "close", "encode", "done"}
       => var_name \in File_.vars
  /\ (ds # Nothing /\ pc # "resolve" /\ C9_Expected(File_.vars) = None)
       => (pc = "failed" /\ err = "VariableNotFound")
  /\ err = "VariableNotFound"
       => (/\ pc = "failed"
           /\ File_.vars \cap {"precipitationCal", "precipitation", "precip"} = {}
           /\ ds_cropped = Nothing /\ data = Nothing /\ result = Nothing
           /\ opened = 1 /\ Len(opens) <= 2)
  /\ \A k \in 1..Len(returned) :
       returned[k].err = "VariableNotFound"
         => (~returned[k].ok /\ returned[k].grid = Nothing
             /\ returned[k].result = Nothing /\ returned[k].opened = 1)

C9_Witness ==
  /\ pc = "crop"
  /\ {"precipitationCal", "precipitation"} \subseteq File_.vars
  /\ var_name = "precipitationCal"

\* The coordinates of an axis that lie between the two edges, whichever of
\* the two is the larger.
Between(coord, e1, e2) ==
  {i \in 1..Len(coord) : (e1 <= coord[i] /\ coord[i] <= e2) \/ (e2 <= coord[i] /\ coord[i] <= e1)}

\* The selection raises: a resolved coordinate name is no dimension.
SelRaises == lat_name \notin Range(File_.coords) \/ lon_name \notin Range(File_.coords)

\* The selection is empty: no latitude or no longitude lies in the box.
SelEmpty ==
  \/ Between(File_.lats, request.bounds.bottom, request.bounds.top) = {}
  \/ Between(File_.lons, request.bounds.left, request.bounds.right) = {}

AfterCrop == {"extract", "orient", "filter", "close", "encode", "done"}

\* C3: in _extract_cloud_arrays and process_local_file, when the selection
\* raises or selects zero elements the crop yields the full dataset (full
\* lat/lon sequences, full field) and the call goes on to the extraction;
\* no call fails in the crop.
C3_CropFallsBack ==
  /\ (fn \in CroppingFns /\ pc \in AfterCrop /\ (SelRaises \/ SelEmpty))
       => /\ Get(ds_cropped).lats = File_.lats
          /\ Get(ds_cropped).lons = File_.lons
          /\ Get(ds_cropped).field = File_.field
          /\ Get(ds_cropped) = Get(ds)
  /\ (fn \in CroppingFns /\ pc \in AfterCrop /\ data # Nothing /\ (SelRaises \/ SelEmpty))
       => Size(Get(data)) = Len(File_.lats) * Len(File_.lons)
  /\ (fn \in CroppingFns /\ pc = "failed" /\ var_name # None)
       => (ds_cropped # Nothing /\ err \in {"KeyError"} \cup FilterErrors)

C3_Witness ==
  /\ fn = "_extract_cloud_arrays" /\ pc = "close"
  /\ ~SelRaises /\ SelEmpty
  /\ Get(ds_cropped) = Get(ds)
  /\ lats = File_.lats /\ lons = File_.lons

\* The three corner-swapped variants of a bounding box.
Swapped(b) ==
  { [top |-> b.bottom, bottom |-> b.top, left |-> b.left, right |-> b.right],
    [top |-> b.top, bottom |-> b.bottom, left |-> b.right, right |-> b.left],
    [top |-> b.bottom, bottom |-> b.top, left |-> b.right, right |-> b.left] }

\* C4: cropping with the box of the request and with any corner-swapped
\* variant of it selects the same lat and lon ranges and yields the same
\* cropped dataset; the cropped dataset holds exactly the coordinates
\* between the two edges of each axis (or all of them on fallback).
C4_SwapSymmetric ==
  (fn \in CroppingFns /\ pc \in AfterCrop)
    => /\ \A b2 \in Swapped(request.bounds) :
            /\ LatSlice(b2) = LatSlice(request.bounds)
            /\ LonSlice(b2) = LonSlice(request.bounds)
            /\ CropOf(fn, Get(ds), lat_name, lon_name, b2) = Get(ds_cropped)
       /\ (~SelRaises /\ ~SelEmpty)
            => /\ Range(Get(ds_cropped).lats)
                   = {File_.lats[i] : i \in Between(File_.lats, request.bounds.top, request.bounds.bottom)}
               /\ Range(Get(ds_cropped).lons)
                   = {File_.lons[j] : j \in Between(File_.lons, request.bounds.right, request.bounds.left)}

C4_Witness ==
  /\ fn = "_extract_cloud_arrays" /\ pc = "extract"
  /\ request.bounds.top < request.bounds.bottom
  /\ request.bounds.right < request.bounds.left
  /\ Len(Get(ds_cropped).lats) < Len(File_.lats)
  /\ Len(Get(ds_cropped).lons) < Len(File_.lons)
  /\ Len(Get(ds_cropped).lons) > 1

\* Cells of a 2-D grid, and the cells above the threshold.
Cells(a) == (1..a.shape[1]) \X (1..a.shape[2])
Members(a, t) == {c \in Cells(a) : At(a, c[1], c[2]) > t}
\* Row-major position of a cell among the members.
Rank(a, t, c) ==
  Cardinality({m \in Members(a, t) : m[1] < c[1] \/ (m[1] = c[1] /\ m[2] <= c[2])})

\* C5: the sparse filter returns three parallel sequences whose length is
\* the number of cells strictly above the threshold; element k is the
\* latitude, longitude and value of the k-th such cell in row-major order.
C5_SparseFilter ==
  (fn = "_extract_cloud_arrays" /\ result # Nothing)
    => LET G == Get(data)
           t == request.threshold
           r == Get(result)
           n == Cardinality(Members(G, t))
       IN /\ Len(r.lats) = n /\ Len(r.lons) = n /\ Len(r.vals) = n
          /\ \A c \in Members(G, t) :
               LET k == Rank(G, t, c)
               IN /\ r.lats[k] = lats[c[1]]
                  /\ r.lons[k] = lons[c[2]]
                  /\ r.vals[k] = At(G, c[1], c[2])
          /\ \A k \in 1..Len(r.vals) : r.vals[k] > t
          /\ (pc = "done" /\ request.format = "json")
               => Get(response).content.meta.count = n

C5_Witness ==
  /\ fn = "_extract_cloud_arrays" /\ pc = "close"
  /\ \E k \in 1..Size(Get(data)) : Get(data).flat[k] = request.threshold
  /\ \E k \in 1..Size(Get(data)) : Get(data).flat[k] < request.threshold
  /\ Len(Get(result).vals) >= 2

\* Reading the payload: an unsigned 32-bit integer and a 32-bit float
\* (of an integer value) from the four bytes after offset off.
ReadU32(c, off) ==
  c[off + 1] + 256 * c[off + 2] + 65536 * c[off + 3] + 16777216 * c[off + 4]

ReadF32(c, off) ==
  LET expo == 2 * (c[off + 4] % 128) + (c[off + 3] \div 128)
      mant == c[off + 1] + 256 * c[off + 2] + 65536 * (c[off + 3] % 128)
      mag  == IF expo = 0 THEN 0
              ELSE (8388608 + mant) \div Pow2(150 - expo)
  IN IF c[off + 4] >= 128 THEN -mag ELSE mag

\* C6: a binary payload is 8 + 12*count bytes: the count as unsigned 32-bit
\* integer, the maximum as 32-bit float, then count latitudes, count
\* longitudes and count values of 4 bytes each; the count of the header is
\* the number of triples of the body, also when it is 0.
C6_BinaryLayout ==
  (fn = "_extract_cloud_arrays" /\ pc = "done" /\ request.format = "bin")
    => LET c == Get(response).content
           r == Get(result)
           n == ReadU32(c, 0)
       IN /\ Get(response).status = 200
          /\ \A i \in 1..Len(c) : c[i] \in 0..255
          /\ Len(c) = 8 + 12 * n
          /\ n = Len(r.vals) /\ n = Len(r.lats) /\ n = Len(r.lons)
          /\ ReadF32(c, 4) = r.max_val
          /\ \A k \in 1..n :
               /\ ReadF32(c, 8 + 4 * (k - 1)) = r.lats[k]
               /\ ReadF32(c, 8 + 4 * n + 4 * (k - 1)) = r.lons[k]
               /\ ReadF32(c, 8 + 8 * n + 4 * (k - 1)) = r.vals[k]

C6_Witness ==
  /\ fn = "_extract_cloud_arrays" /\ pc = "done" /\ request.format = "bin"
  /\ Len(Get(result).vals) >= 3
  /\ Len(Get(response).content) = 8 + 12 * Len(Get(result).vals)

C6_WitnessEmpty ==
  /\ fn = "_extract_cloud_arrays" /\ pc = "done" /\ request.format = "bin"
  /\ Len(Get(result).vals) = 0
  /\ Len(Get(response).content) = 8

\* C7: for a 2-D squeezed field the oriented grid has the shape
\* (len(lats), len(lons)) and its cell (i, j) is the value of the field at
\* (lats[i], lons[j]), whichever axis order the file stores.
C7_OrientedLatLon ==
  (pc \in {"filter", "close"} /\ Ndim(Get(data)) = 2 /\ Size(Get(data)) > 0)
    => /\ Get(data).shape = <<Len(lats), Len(lons)>>
       /\ \A i \in 1..Len(lats) : \A j \in 1..Len(lons) :
            At(Get(data), i, j) = Get(ds_cropped).field[i][j]

\* C10: on a request within the 2-D precondition of the orientation stage
\* (the grid process_local_file returns, if any, is 2-D) the three functions
\* all fail or all succeed, and when they succeed they worked on the same
\* oriented grid, and get_sparse_cloud_data reports the points of
\* _extract_cloud_arrays.
C10_PipelinesAgree ==
  (/\ Len(returned) = Len(CallOrder)
   /\ returned[1].grid # Nothing => Ndim(Get(returned[1].grid).data) = 2)
    => /\ \A a, b \in 1..Len(returned) : returned[a].ok = returned[b].ok
       /\ \A a, b \in 1..Len(returned) :
            (returned[a].ok /\ returned[b].ok) => returned[a].grid = returned[b].grid
       /\ (returned[2].ok /\ returned[3].ok)
            => /\ Len(Get(returned[3].result).vals) = Len(Get(returned[2].result).vals)
               /\ Get(returned[3].result).lats = Get(returned[2].result).lats
               /\ Get(returned[3].result).lons = Get(returned[2].result).lons
               /\ Get(returned[3].result).vals = Get(returned[2].result).vals

====
